---- MODULE Spec2Model ----
\* A model of the progressbar library (lib/progressbar.c, progressbar.h):
\* the bar object, its constructors, mutators, finish, the termcap width
\* probe and the renderer progressbar_draw, with the bytes written to
\* stderr recorded draw by draw.
EXTENDS Integers, Sequences, FiniteSets, TLC

VARIABLES
  phase,    \* "none" | "active" | "unavailable" | "aborted" | "lost" | "finished"
  bar,      \* the malloc'ed progressbar struct (NoBar before construction / after free)
  ret,      \* what the last constructor call returned to the host
  now,      \* time(NULL)
  sink,     \* stderr: number of draws, the last line drawn, newlines after it
  spins,    \* history: how many draws painted a tumbler cell
  lastOp,   \* history: the API call that produced this state
  args,     \* renderer-only runs: the inputs handed to progressbar_draw
  result    \* renderer-only runs: the two lines it drew

vars == <<phase, bar, ret, now, sink, spins, lastOp, args, result>>
pure == <<args, result>>

----------------------------------------------------------------------------
\* Program constants (progressbar.c:19-31)

DEFAULT_SCREEN_WIDTH == 80
MINIMUM_BAR_WIDTH == 10
ETA_FORMAT_LENGTH == 13
WHITESPACE_LENGTH == 2
BAR_BORDER_WIDTH == 2
ETA_FORMAT == "ETA:"
ELAPSED_FORMAT == "    "
DefaultFormat == <<"|", "=", " ", "|">>

----------------------------------------------------------------------------
\* Bounds of the model

MaxDraws == 2        \* draws a bar makes before finish (the constructor's included)
MaxLabelLen == 2     \* longest label handed to the library
MaxSteps == 2        \* the small `max` argument of the steps constructors
BigMax == 16         \* the large one, more steps than the narrow bar has pieces
MaxCols == 27        \* widest column count the terminal entry reports
PercentDen == 2      \* fractions handed to update_percent are k / PercentDen
MaxTicks == 1        \* clock steps

LabelText == <<"a", "b", "c", "d", "e", "f", "g", "h">>
Labels == {<<>>} \cup {SubSeq(LabelText, i, i + MaxLabelLen - 1) : i \in 1..2}
Formats == {DefaultFormat, <<"#">>}
NullTumbler == <<>>
Tumblers == {NullTumbler, <<"/", "-">>}
Maxes == {MaxSteps, BigMax}
StepValues == (0 - 1)..(MaxSteps + 1)
PercentNums == (0 - 1)..(PercentDen + 1)
Columns == (MaxCols - 1)..MaxCols
TickStep == 3600 + 60 + 1
\* (tgetent result, tgetnum("co") result): database missing, entry missing,
\* entry found without a "co" capability, entry found with it.
Probes == {<<0 - 1, 0 - 1>>, <<0, 0 - 1>>, <<1, 0 - 1>>}
            \cup {<<1, c>> : c \in Columns}

\* Inputs of the renderer-only runs
MaxPureWidth == 30   \* widest screen
MaxPureLabel == 3    \* longest label
MaxPureMax == 9      \* largest `max`

PureWidths == {0 - 3, 0 - 1, 0, 20} \cup 24..MaxPureWidth
PureLabels == {SubSeq(LabelText, 1, n) : n \in 0..MaxPureLabel}
PureArgs == {a \in [W : PureWidths, label : PureLabels, max : 1..MaxPureMax,
                    tumbler : Tumblers, v : 0..(MaxPureMax + 1),
                    v2 : 0..(MaxPureMax + 1)] : a.v <= a.v2}

NoBar == [none |-> TRUE]
NoDraw == [none |-> TRUE]
NoArgs == [none |-> TRUE]
NoResult == [none |-> TRUE]

----------------------------------------------------------------------------
\* C integer conversions.  A 32-bit unsigned int is kept as two 16-bit
\* limbs and a 64-bit size_t as four, most significant first.

LimbBase == 2^16

ToUnsigned(x) == <<(x \div LimbBase) % LimbBase, x % LimbBase>>

ToInt(u) == IF u[1] >= LimbBase \div 2
            THEN (u[1] - LimbBase) * LimbBase + u[2]
            ELSE u[1] * LimbBase + u[2]

ToSizeT(n) == LET s == IF n < 0 THEN LimbBase - 1 ELSE 0
              IN <<s, s, (n \div LimbBase) % LimbBase, n % LimbBase>>

\* C division of an int by a positive int truncates toward zero; the same
\* holds for the double -> int conversions of the renderer.
TruncDiv(a, b) == IF a >= 0 THEN a \div b ELSE 0 - ((0 - a) \div b)

----------------------------------------------------------------------------
\* The union { long value; double percent; } of the struct.

StepsOf(v) == [tag |-> "value", v |-> v]
PercentOf(k) == [tag |-> "percent", v |-> k]

\* bar->value: the long itself, or the bits of the double read as a long,
\* of which only the sign is ever used (progressbar_remaining_seconds).
ValueOf(b) == IF b.u.tag = "value" THEN b.u.v
              ELSE IF b.u.v > 0 THEN 1 ELSE IF b.u.v = 0 THEN 0 ELSE 0 - 1

\* bar->percent as the numerator over PercentDen.
PercentNum(b) == b.u.v

----------------------------------------------------------------------------
\* Helpers of the renderer

progressbar_max(x, y) == IF x > y THEN x ELSE y

get_screen_width(probe) ==
  IF probe[1] >= 0 THEN ToUnsigned(probe[2]) ELSE ToUnsigned(DEFAULT_SCREEN_WIDTH)

progressbar_bar_width(screen_width, label_length) ==
  progressbar_max(MINIMUM_BAR_WIDTH,
                  screen_width - label_length - ETA_FORMAT_LENGTH - WHITESPACE_LENGTH)

\* variant: the sacrificed label is not clamped at zero
progressbar_label_width_unclamped(screen_width, label_length, bar_width) ==
  IF label_length + 1 + bar_width + 1 + ETA_FORMAT_LENGTH > screen_width
  THEN screen_width - bar_width - ETA_FORMAT_LENGTH - WHITESPACE_LENGTH
  ELSE label_length

progressbar_label_width(screen_width, label_length, bar_width) ==
  IF label_length + 1 + bar_width + 1 + ETA_FORMAT_LENGTH > screen_width
  THEN progressbar_max(0, screen_width - bar_width - ETA_FORMAT_LENGTH - WHITESPACE_LENGTH)
  ELSE label_length

progressbar_remaining_seconds(b, t) ==
  LET offset == t - b.start
  IN IF ValueOf(b) > 0 /\ offset > 0
     THEN IF b.max < 0
          THEN TruncDiv(offset * (PercentDen - PercentNum(b)), PercentNum(b))
          ELSE TruncDiv(offset * (b.max - b.u.v), b.u.v)
     ELSE 0

progressbar_calc_time_components(seconds) ==
  LET hours == TruncDiv(seconds, 3600)
      rest == seconds - hours * 3600
      minutes == TruncDiv(rest, 60)
  IN [hours |-> hours, minutes |-> minutes, seconds |-> rest - minutes * 60]

----------------------------------------------------------------------------
\* progressbar_draw, piece by piece

\* line 241
progressbar_completed(b) ==
  IF b.max < 0 THEN PercentNum(b) >= PercentDen ELSE b.u.v >= b.max

\* variant: the steps ratio taken from the steps still to do, as
\* progressbar_remaining_seconds does
bar_piece_raw_remaining(b, bar_piece_count) ==
  IF progressbar_completed(b) THEN bar_piece_count
  ELSE IF b.max < 0 THEN TruncDiv(bar_piece_count * PercentNum(b), PercentDen)
       ELSE TruncDiv(bar_piece_count * (b.max - b.u.v), b.max)

\* lines 243-248: bar_piece_count * progress, converted to int
bar_piece_raw(b, bar_piece_count) ==
  IF progressbar_completed(b) THEN bar_piece_count
  ELSE IF b.max < 0 THEN TruncDiv(bar_piece_count * PercentNum(b), PercentDen)
       ELSE TruncDiv(bar_piece_count * b.u.v, b.max)

\* lines 249-253: leave one cell to the tumbler
bar_piece_current(b, raw) ==
  IF progressbar_completed(b) \/ b.tumbler_length = 0 THEN raw
  ELSE IF raw = 0 THEN raw ELSE raw - 1

\* variant: the tumbler only once a fill cell has been painted
tumbler_painted_after_fill(b, current, bar_piece_count) ==
  b.tumbler_length > 0 /\ current > 0 /\ current < bar_piece_count

\* line 272
tumbler_painted(b, current, bar_piece_count) ==
  b.tumbler_length > 0 /\ current < bar_piece_count

\* variant: the cursor is not wrapped
tumbler_next_nowrap(pos, len) == pos + 1

\* lines 275-276
tumbler_next(pos, len) == (pos + 1) % len

\* line 278: the count handed to progressbar_write_char for the unfilled glyph
unfilled_count(b, current, bar_piece_count) ==
  bar_piece_count - current
    - (IF b.tumbler_length = 0 THEN 0 ELSE IF current = bar_piece_count THEN 0 ELSE 1)

\* line 265: fwrite(bar->label, 1, label_width, stderr), the bytes of the
\* label it can take
label_written(label, label_width) ==
  SubSeq(label, 1, IF label_width > Len(label) THEN Len(label) ELSE label_width)

\* lines 255-257
draw_eta(b, t) ==
  IF progressbar_completed(b)
  THEN progressbar_calc_time_components(t - b.start)
  ELSE progressbar_calc_time_components(progressbar_remaining_seconds(b, t))

\* The line one call of progressbar_draw writes, with the locals it was
\* computed from.  fill_times and unfilled_times are the size_t arguments
\* of progressbar_write_char.
progressbar_draw(b, probe, t) ==
  LET width_u == get_screen_width(probe)
      screen_width == ToInt(width_u)
      label_length == Len(b.label)
      bar_width == progressbar_bar_width(screen_width, label_length)
      label_width == progressbar_label_width(screen_width, label_length, bar_width)
      completed == progressbar_completed(b)
      bar_piece_count == bar_width - BAR_BORDER_WIDTH
      raw == bar_piece_raw(b, bar_piece_count)
      current == bar_piece_current(b, raw)
      painted == tumbler_painted(b, current, bar_piece_count)
  IN [ probe |-> probe,
       max |-> b.max,
       u |-> b.u,
       tumbler_format |-> b.tumbler_format,
       width_u |-> width_u,
       screen_width |-> screen_width,
       label_length |-> label_length,
       label_width |-> label_width,
       label_bytes |-> IF label_width = 0 THEN <<>> ELSE label_written(b.label, label_width),
       label_space |-> IF label_width = 0 THEN 0 ELSE 1,
       bar_width |-> IF label_width = 0 THEN bar_width + 1 ELSE bar_width,
       bar_piece_count |-> bar_piece_count,
       completed |-> completed,
       raw |-> raw,
       bar_piece_current |-> current,
       begin |-> b.format.begin,
       fill |-> b.format.fill,
       fill_times |-> ToSizeT(current),
       tumbler |-> IF painted THEN <<b.tumbler_format[b.tumbler_pos + 1]>> ELSE <<>>,
       unfilled |-> b.format.unfilled,
       unfilled_times |-> ToSizeT(unfilled_count(b, current, bar_piece_count)),
       end |-> b.format.end,
       time_format |-> IF completed THEN ELAPSED_FORMAT ELSE ETA_FORMAT,
       eta |-> draw_eta(b, t) ]

\* The bar after that draw: only the tumbler cursor moves.
bar_after_draw(b, d) ==
  IF d.tumbler # <<>>
  THEN [b EXCEPT !.tumbler_pos = tumbler_next(b.tumbler_pos, b.tumbler_length)]
  ELSE b

\* stderr after one more draw
sink_after_draw(s, d) == [draws |-> s.draws + 1, last |-> d, newlines |-> 0]

\* progressbar_assign_values, after its assert
progressbar_assign_values(b, format, tumbler_format, t) ==
  [b EXCEPT !.start = t,
            !.format = [begin |-> format[1], fill |-> format[2],
                        unfilled |-> format[3], end |-> format[4]],
            !.tumbler_format = tumbler_format,
            !.tumbler_length = Len(tumbler_format),
            !.tumbler_pos = 0]

\* malloc'ed storage with max and the union written (lines 57-58, 74-75)
fresh_bar(max, u) ==
  [max |-> max, u |-> u, start |-> 0, label |-> <<>>,
   format |-> [begin |-> "", fill |-> "", unfilled |-> "", end |-> ""],
   tumbler_format |-> NullTumbler, tumbler_length |-> 0, tumbler_pos |-> 0]

----------------------------------------------------------------------------
\* The library's state machine

Init ==
  /\ phase = "none"
  /\ bar = NoBar
  /\ ret = "none"
  /\ now = 0
  /\ sink = [draws |-> 0, last |-> NoDraw, newlines |-> 0]
  /\ spins = 0
  /\ lastOp = "none"
  /\ args = NoArgs
  /\ result = NoResult

Painted(d) == IF d.tumbler # <<>> THEN 1 ELSE 0

\* The body shared by the four *_with_format* constructors: malloc, the
\* field writes, progressbar_assign_values with its assert,
\* progressbar_update_label, progressbar_draw, and the value the host
\* receives, one of `returned`.
Construct(op, label, max, u, format, tumbler_format, returned) ==
  /\ phase = "none"
  /\ args = NoArgs
  /\ lastOp' = op
  /\ UNCHANGED pure
  /\ \/ \* malloc returned NULL
        /\ phase' = "unavailable"
        /\ ret' = "NULL"
        /\ UNCHANGED <<bar, now, sink, spins>>
     \/ \* assert(4 == strlen(format)) fails
        /\ Len(format) # 4
        /\ phase' = "aborted"
        /\ bar' = fresh_bar(max, u)
        /\ UNCHANGED <<ret, now, sink, spins>>
     \/ /\ Len(format) = 4
        /\ \E probe \in Probes, r \in returned :
             LET b == [progressbar_assign_values(fresh_bar(max, u), format,
                                                 tumbler_format, now)
                         EXCEPT !.label = label]
                 d == progressbar_draw(b, probe, now)
             IN /\ bar' = bar_after_draw(b, d)
                /\ sink' = sink_after_draw(sink, d)
                /\ spins' = spins + Painted(d)
                /\ ret' = r
                /\ phase' = IF r = "pb" THEN "active" ELSE "lost"
        /\ UNCHANGED now

\* lines 50-65
progressbar_new_with_format ==
  \E label \in Labels, max \in Maxes, format \in Formats :
    Construct("new_with_format", label, max, StepsOf(0), format, NullTumbler, {"pb"})

\* lines 67-80: control reaches the closing brace without a return
\* statement, so the value the caller reads is indeterminate.
progressbar_new_percent_with_format ==
  \E label \in Labels, format \in Formats :
    Construct("new_percent_with_format", label, 0 - 1, PercentOf(0), format,
              NullTumbler, {"pb", "NULL", "garbage"})

\* lines 89-106
progressbar_new_with_format_and_tumbler ==
  \E label \in Labels, max \in Maxes, format \in Formats, tumbler \in Tumblers :
    Construct("new_with_format_and_tumbler", label, max, StepsOf(0), format,
              tumbler, {"pb"})

\* lines 108-125
progressbar_new_percent_with_format_and_tumbler ==
  \E label \in Labels, format \in Formats, tumbler \in Tumblers :
    Construct("new_percent_with_format_and_tumbler", label, 0 - 1, PercentOf(0),
              format, tumbler, {"pb"})

\* lines 130-133
progressbar_new ==
  \E label \in Labels, max \in Maxes :
    Construct("new", label, max, StepsOf(0), DefaultFormat, NullTumbler, {"pb"})

\* lines 135-138: hands on whatever progressbar_new_percent_with_format gave
progressbar_new_percent ==
  \E label \in Labels :
    Construct("new_percent", label, 0 - 1, PercentOf(0), DefaultFormat,
              NullTumbler, {"pb", "NULL", "garbage"})

\* variant: the new label is drawn at once
progressbar_update_label_redraws(label) ==
  /\ phase = "active"
  /\ \E probe \in Probes :
       LET b == [bar EXCEPT !.label = label]
           d == progressbar_draw(b, probe, now)
       IN /\ bar' = bar_after_draw(b, d)
          /\ sink' = sink_after_draw(sink, d)
          /\ spins' = spins + Painted(d)
  /\ lastOp' = "update_label"
  /\ UNCHANGED pure
  /\ UNCHANGED <<phase, ret, now>>

\* lines 140-143
progressbar_update_label(label) ==
  /\ phase = "active"
  /\ bar' = [bar EXCEPT !.label = label]
  /\ lastOp' = "update_label"
  /\ UNCHANGED pure
  /\ UNCHANGED <<phase, ret, now, sink, spins>>

Relabel == \E label \in Labels : progressbar_update_label(label)

\* A mutator's common tail: the union is written, then progressbar_draw runs.
SetAndDraw(op, u) ==
  /\ phase = "active"
  /\ sink.draws < MaxDraws
  /\ \E probe \in Probes :
       LET b == [bar EXCEPT !.u = u]
           d == progressbar_draw(b, probe, now)
       IN /\ bar' = bar_after_draw(b, d)
          /\ sink' = sink_after_draw(sink, d)
          /\ spins' = spins + Painted(d)
  /\ lastOp' = op
  /\ UNCHANGED <<phase, ret, now>>
  /\ UNCHANGED pure

\* lines 157-161, on a bar made by a steps constructor
progressbar_update ==
  /\ phase = "active"
  /\ bar.max >= 0
  /\ \E value \in StepValues : SetAndDraw("update", StepsOf(value))

\* lines 163-167, on a bar made by a percent constructor
progressbar_update_percent ==
  /\ phase = "active"
  /\ bar.max < 0
  /\ \E k \in PercentNums : SetAndDraw("update_percent", PercentOf(k))

\* lines 172-175
progressbar_inc ==
  /\ phase = "active"
  /\ bar.max >= 0
  /\ bar.u.v + 1 \in StepValues
  /\ SetAndDraw("inc", StepsOf(bar.u.v + 1))

\* lines 290-302, with progressbar_free
progressbar_finish ==
  /\ phase = "active"
  /\ \E probe \in Probes :
       LET b == IF bar.max < 0 THEN [bar EXCEPT !.u = PercentOf(PercentDen)] ELSE bar
           d == progressbar_draw(b, probe, now)
       IN /\ sink' = [sink_after_draw(sink, d) EXCEPT !.newlines = 1]
          /\ spins' = spins + Painted(d)
  /\ bar' = NoBar
  /\ phase' = "finished"
  /\ lastOp' = "finish"
  /\ UNCHANGED pure
  /\ UNCHANGED <<ret, now>>

\* the wall clock moves between calls
Tick ==
  /\ phase = "active"
  /\ now + TickStep <= MaxTicks * TickStep
  /\ now' = now + TickStep
  /\ lastOp' = "tick"
  /\ UNCHANGED pure
  /\ UNCHANGED <<phase, bar, ret, sink, spins>>

Next ==
  \/ progressbar_new
  \/ progressbar_new_percent
  \/ progressbar_new_with_format
  \/ progressbar_new_percent_with_format
  \/ progressbar_new_with_format_and_tumbler
  \/ progressbar_new_percent_with_format_and_tumbler
  \/ Relabel
  \/ progressbar_update
  \/ progressbar_update_percent
  \/ progressbar_inc
  \/ progressbar_finish
  \/ Tick

Spec == Init /\ [][Next]_vars

----------------------------------------------------------------------------
\* Renderer-only runs: progressbar_draw applied to a steps bar with a
\* given label, max and tumbler on a screen of a given width, once at
\* value v and once at value v2 >= v.

pure_bar(a, value) ==
  [progressbar_assign_values(fresh_bar(a.max, StepsOf(value)), DefaultFormat,
                             a.tumbler, 0)
     EXCEPT !.label = a.label]

InitPure ==
  /\ phase = "none"
  /\ bar = NoBar
  /\ ret = "none"
  /\ now = 0
  /\ sink = [draws |-> 0, last |-> NoDraw, newlines |-> 0]
  /\ spins = 0
  /\ lastOp = "none"
  /\ args \in PureArgs
  /\ result = NoResult

Render ==
  /\ args # NoArgs
  /\ result = NoResult
  /\ result' = [lo |-> progressbar_draw(pure_bar(args, args.v), <<1, args.W>>, now),
                hi |-> progressbar_draw(pure_bar(args, args.v2), <<1, args.W>>, now)]
  /\ UNCHANGED <<phase, bar, ret, now, sink, spins, lastOp, args>>

NextPure == Render

PureSpec == InitPure /\ [][NextPure]_vars


----------------------------------------------------------------------------
\* Reading a drawn line

Drawn == sink.draws > 0

\* a size_t count that is an ordinary small number
Small(n) == n[1] = 0 /\ n[2] = 0 /\ n[3] = 0

Pieces(d) == d.bar_piece_count
FillCells(d) == d.fill_times[4]
UnfilledCells(d) == d.unfilled_times[4]
TumblerCells(d) == Len(d.tumbler)

\* the progress the line was drawn from
IsComplete(d) == IF d.max < 0 THEN d.u.v >= PercentDen ELSE d.u.v >= d.max
InRange(d) == IF d.max < 0 THEN d.u.v \in 0..PercentDen ELSE d.u.v \in 0..d.max
\* floor(pieces * p)
FilledRaw(d) == IF d.max < 0 THEN (Pieces(d) * d.u.v) \div PercentDen
                ELSE (Pieces(d) * d.u.v) \div d.max

\* columns printf gives to %2d
RECURSIVE Digits(_)
Digits(n) == IF n < 10 THEN 1 ELSE 1 + Digits(n \div 10)
HoursColumns(h) == IF Digits(h) < 2 THEN 2 ELSE Digits(h)
\* prefix, hours, "h", two-digit minutes, "m", two-digit seconds, "s"
TimeFieldColumns(d) == 4 + HoursColumns(d.eta.hours) + 1 + 2 + 1 + 2 + 1

\* bytes of the line before its carriage return
VisibleColumns(d) ==
  Len(d.label_bytes) + d.label_space + 1 + FillCells(d) + TumblerCells(d)
    + UnfilledCells(d) + 1 + 1 + TimeFieldColumns(d)

----------------------------------------------------------------------------
\* Properties

\* C1: every draw paints a fill count in [0, pieces], with
\* filled + tumbler cell + unfilled = pieces; a negative value or fraction
\* gives 0 fill cells and a value >= max or fraction >= 1 gives all pieces.
C1_FillWithinPieces ==
  Drawn =>
    LET d == sink.last
    IN /\ Small(d.fill_times) /\ Small(d.unfilled_times)
       /\ FillCells(d) \in 0..Pieces(d)
       /\ FillCells(d) + TumblerCells(d) + UnfilledCells(d) = Pieces(d)
       /\ d.u.v < 0 => FillCells(d) = 0
       /\ IsComplete(d) => FillCells(d) = Pieces(d)

\* C2: the draw of finish shows all pieces filled, no tumbler and the
\* elapsed time format, whatever the progress was, and is followed by
\* exactly one newline before the bar is released.
C2_FinishDrawsComplete ==
  lastOp = "finish" =>
    LET d == sink.last
    IN /\ Small(d.fill_times) /\ FillCells(d) = Pieces(d)
       /\ d.tumbler = <<>>
       /\ d.time_format = ELAPSED_FORMAT
       /\ sink.newlines = 1
       /\ bar = NoBar

\* C3: on a screen of at least 25 columns, with in-range progress and
\* fewer than 100 hours shown, a draw emits bar_width + (label_width > 0 ?
\* label_width + 1 : 0) + 1 + 13 columns before the CR, bar_width being
\* the final bar width (with the column granted when no label is shown).
C3_WidthAccounting ==
  (Drawn /\ sink.last.screen_width >= MINIMUM_BAR_WIDTH + ETA_FORMAT_LENGTH + WHITESPACE_LENGTH
         /\ InRange(sink.last) /\ sink.last.eta.hours < 100) =>
    LET d == sink.last
    IN VisibleColumns(d) =
         d.bar_width + (IF d.label_width > 0 THEN d.label_width + 1 ELSE 0)
           + 1 + ETA_FORMAT_LENGTH

\* C4: every constructor returns the new bar whenever allocation
\* succeeded, and NULL only when allocation failed.
C4_ConstructorsReturnBar ==
  /\ phase \in {"active", "lost", "finished"} => ret = "pb"
  /\ ret = "NULL" => phase = "unavailable"

\* C5: progressbar_update_label writes nothing to stderr and changes only
\* the label; each of inc/update/update_percent/finish performs exactly one
\* draw, and that draw is laid out from and shows the current label.
C5_RelabelLazy ==
  [][ /\ lastOp' = "update_label" =>
           /\ sink' = sink
           /\ bar' = [bar EXCEPT !.label = bar'.label]
           /\ now' = now /\ spins' = spins /\ phase' = phase
      /\ lastOp' \in {"inc", "update", "update_percent", "finish"} =>
           /\ sink'.draws = sink.draws + 1
           /\ sink'.last.label_length = Len(bar.label)
           /\ sink'.last.label_width <= Len(bar.label)
           /\ sink'.last.label_bytes = SubSeq(bar.label, 1, sink'.last.label_width)
    ]_vars

C5_Witness ==
  /\ lastOp = "update_label"
  /\ Drawn
  /\ sink.last.label_width > 0
  /\ Len(bar.label) > 0
  /\ sink.last.label_bytes[1] # bar.label[1]

\* C6: with a tumbler of length k >= 1 the cursor starts at 0, stays in
\* 0..k-1, the n-th draw that paints a tumbler cell shows character
\* n mod k and moves the cursor on by one modulo k, and other draws leave
\* it alone; without a tumbler the cursor stays 0 and no cell is painted.
C6_TumblerCursor ==
  /\ phase \in {"active", "lost"} =>
       IF bar.tumbler_length >= 1
       THEN /\ bar.tumbler_pos \in 0..(bar.tumbler_length - 1)
            /\ bar.tumbler_pos = spins % bar.tumbler_length
       ELSE bar.tumbler_pos = 0 /\ spins = 0
  /\ Drawn =>
       LET d == sink.last
           k == Len(d.tumbler_format)
       IN IF d.tumbler # <<>>
          THEN k >= 1 /\ spins >= 1
               /\ d.tumbler[1] = d.tumbler_format[((spins - 1) % k) + 1]
          ELSE TRUE

C6_Witness ==
  /\ lastOp = "finish"
  /\ spins = 3
  /\ sink.last.tumbler_format = <<"/", "-">>
  /\ sink.last.tumbler = <<"/">>

\* C7: in steps mode, for one max, label, tumbler and screen width and
\* values 0 <= v <= v2, the draw at v2 paints at least as many fill plus
\* tumbler cells as the draw at v.
C7_MonotoneFill ==
  result # NoResult =>
    /\ Small(result.lo.fill_times) /\ Small(result.hi.fill_times)
    /\ FillCells(result.lo) + TumblerCells(result.lo)
         <= FillCells(result.hi) + TumblerCells(result.hi)

C7_Witness ==
  /\ result # NoResult
  /\ args.tumbler # NullTumbler
  /\ 0 < args.v /\ args.v < args.max /\ args.v2 >= args.max
  /\ FillCells(result.lo) + TumblerCells(result.lo)
       < FillCells(result.hi) + TumblerCells(result.hi)

\* C8: the width probe returns the terminal's column count when the
\* lookup succeeds and 80 on any failure, so a draw never computes with a
\* negative width.
C8_WidthProbeDefaults ==
  Drawn =>
    LET d == sink.last
    IN /\ IF d.probe[1] > 0 /\ d.probe[2] >= 0
          THEN d.width_u = ToUnsigned(d.probe[2])
          ELSE d.width_u = ToUnsigned(DEFAULT_SCREEN_WIDTH)
       /\ d.screen_width >= 0

C10_LabelAndBarWidths ==
  result # NoResult =>
    LET d == result.lo
    IN /\ d.label_width \in 0..Len(args.label)
       /\ Len(d.label_bytes) = d.label_width
       /\ d.bar_width >= MINIMUM_BAR_WIDTH
       /\ d.bar_piece_count >= MINIMUM_BAR_WIDTH - BAR_BORDER_WIDTH

C10_Witness ==
  /\ result # NoResult
  /\ args.W < MINIMUM_BAR_WIDTH + ETA_FORMAT_LENGTH + WHITESPACE_LENGTH + Len(args.label)
  /\ result.lo.label_width > 0
  /\ result.lo.label_width < Len(args.label)

====
